---- MODULE Spec2Model ----
(***************************************************************************)
(* Model of py_obs/project.py: the maintainer resolver                     *)
(* (search_for_maintainers), the metadata publisher (send_meta), entity    *)
(* deletion (delete) and the file listing (fetch_file_list).               *)
(*                                                                         *)
(* Python values are represented as follows.                               *)
(*   - an Optional[T] is a sequence of length at most one: None is <<>>,   *)
(*     a present value v is <<v>>;                                         *)
(*   - a list is a sequence, a str is a string, an int is an integer;      *)
(*   - a value of a union type (Project | str, Package | str) is a record  *)
(*     tagged with its class in the field "cls".                           *)
(***************************************************************************)
EXTENDS Integers, Sequences, FiniteSets

VARIABLES
    pc,               \* position of the running call
    args,             \* the keyword arguments of the running call
    requests,         \* osc.api_request calls issued so far, in order
    outcome,          \* "none" while running, "ok", or the raised error
    result,           \* Optional return value of the call
    server_owners,    \* the service's answer to /search/owner
    server_groups,    \* the service's groups: name -> Optional[UserGroup]
    server_dir,       \* the service's directory listing: list of Entry
    pkg_name,         \* search_for_maintainers: resolved package name
    groups_to_ignore, \* search_for_maintainers: resolved ignore list
    owners,           \* search_for_maintainers: owners.owner
    i,                \* search_for_maintainers: index of the loop variable owner
    pkg_maintainers,  \* search_for_maintainers: local list
    prj_maintainers,  \* search_for_maintainers: local list
    tasks,            \* fetch_group_members: group names handed to fetch_group
    started,          \* indexes of tasks scheduled by asyncio.gather
    completed,        \* indexes of tasks whose fetch_group returned
    fetched,          \* names of the groups fetch_group was called for
    fetch_failures    \* names of the groups whose fetch_group raised

vars == << pc, args, requests, outcome, result, server_owners, server_groups,
           server_dir, pkg_name, groups_to_ignore, owners, i, pkg_maintainers,
           prj_maintainers, tasks, started, completed, fetched, fetch_failures >>

searchLocals == << pkg_name, groups_to_ignore, owners, i, pkg_maintainers,
                   prj_maintainers, tasks, started, completed, fetched,
                   fetch_failures >>

server == << server_owners, server_groups, server_dir >>

----------------------------------------------------------------------------
(* Bounds of the model.                                                    *)

MaxOwners == 2

MaxEntries == 2

----------------------------------------------------------------------------
(* Python values.                                                          *)

None == << >>

Some(v) == << v >>

Range(s) == { s[k] : k \in 1..Len(s) }

\* bool(x) of an Optional[str]: None and "" are falsy.
TruthyStr(x) == x # None /\ x[1] # ""

\* bool(x) of an Optional[int]: None and 0 are falsy.
TruthyInt(x) == x # None /\ x[1] # 0

\* bool(x) of an Optional[list]: None and [] are falsy.
TruthyList(x) == x # None /\ x[1] # << >>

\* bool(x) of an Optional[ET.Element]: an element without children is falsy.
TruthyElement(x) == x # None /\ x[1].children # << >>

\* bool(x) of an Optional[dataclass instance]: every instance is truthy.
TruthyObj(x) == x # None

RECURSIVE Join(_, _)
\* sep.join(strs)
Join(sep, strs) ==
    IF strs = << >> THEN ""
    ELSE IF Len(strs) = 1 THEN strs[1]
    ELSE strs[1] \o sep \o Join(sep, Tail(strs))

RECURSIVE Concat(_)
\* the concatenation of a sequence of lists
Concat(ss) == IF ss = << >> THEN << >> ELSE Head(ss) \o Concat(Tail(ss))

\* The sequences of length at most n over S.
SeqUpTo(S, n) == UNION { [1..k -> S] : k \in 0..n }

----------------------------------------------------------------------------
(* Records.                                                                *)

Project(name) == [cls |-> "Project", name |-> name, title |-> "t",
                  description |-> ""]

Package(name) == [cls |-> "Package", name |-> name, title |-> "t",
                  description |-> "", scmsync |-> None]

Str(s) == [cls |-> "str", value |-> s]

\* Person2(userid): equality of two Person2 is equality of their user ids.
Person2(userid) == [userid |-> userid]

UserGroup(maintainer, person) == [maintainer |-> maintainer, person |-> person]

Owner(project, package, person, group) ==
    [project |-> project, package |-> package, person |-> person, group |-> group]

Request(route, method, params, payload) ==
    [route |-> route, method |-> method, params |-> params, payload |-> payload]

----------------------------------------------------------------------------
(* The inputs and the service's state are drawn from these sets.           *)

Groups == {"grp1", "grp2"}

OwnerRecords ==
    { Owner(prj, pkg, pg[1], pg[2]) :
        prj \in {None, Some("home:x")},
        pkg \in {None, Some(""), Some("pkgA"), Some("pkgB")},
        pg \in { << <<Person2("alice")>>, <<"grp1">> >>,
                 << <<Person2("bob")>>, <<"grp1", "grp2">> >> } }

OwnerResponses == SeqUpTo(OwnerRecords, MaxOwners)

GroupValues == { None,
                 Some(UserGroup(<<"bob">>, << >>)),
                 Some(UserGroup(<<"bob">>, <<"alice">>)) }

GroupDbs == [Groups -> GroupValues]

PkgArgs == {None, Some(Package("pkgA")), Some(Package(""))}

PkgNameArgs == {None, Some("pkgA")}

RolesArgs == {None, Some(<<"maintainer", "bugowner">>)}

IgnoreArgs == {None, Some(<<"grp1">>)}

NoArgs == [op |-> "none"]

----------------------------------------------------------------------------
(* search_for_maintainers                                                  *)

\* params of the owner search.
SearchParams(name, roles) ==
    IF TruthyList(roles)
    THEN {<<"package", name>>, <<"filter", Join(",", roles[1])>>}
    ELSE {<<"package", name>>}

IsPkgScopeAnyPackage(owner, name) == TruthyStr(owner.project)

\* if owner.project and owner.package == pkg_name
IsPkgScope(owner, name) ==
    TruthyStr(owner.project) /\ owner.package = Some(name)

\* if owner.project and not owner.package
IsPrjScope(owner) ==
    TruthyStr(owner.project) /\ ~TruthyStr(owner.package)

FetchTasksNoIgnore(owner, ignore) == owner.group

\* tasks of fetch_group_members: one fetch_group per group not ignored.
FetchTasks(owner, ignore) ==
    SelectSeq(owner.group, LAMBDA g : g \notin Range(ignore))

ScheduledOneByOne(ts, done) ==
    { k \in 1..Len(ts) : \A j \in 1..(k - 1) : j \in done }

\* asyncio.gather(*tasks) schedules every awaitable it is given.
Scheduled(ts, done) == 1..Len(ts)

\* asyncio.gather returns once every awaitable has returned.
GatherReturns(ts, done) == done = 1..Len(ts)

GatherSwallows(r) == FALSE

\* asyncio.gather raises the exception of an awaitable that raised.
GatherRaises(r) == r = None

GroupMembersOnlyMaintainers(res) ==
    Concat([k \in 1..Len(res) |->
              [m \in 1..Len(res[k].maintainer) |-> Person2(res[k].maintainer[m])]])

\* The list returned by fetch_group_members for the gathered groups res.
GroupMembers(res) ==
    Concat([k \in 1..Len(res) |->
              [m \in 1..Len(res[k].maintainer) |-> Person2(res[k].maintainer[m])]])
    \o
    Concat([k \in 1..Len(res) |->
              [m \in 1..Len(res[k].person) |-> Person2(res[k].person[m])]])

\* list(set(xs)): the lists that hold each element of xs once, in any order.
ListOfSet(xs) ==
    LET S == Range(xs)
    IN  { s \in [1..Cardinality(S) -> S] : Range(s) = S }

PackageMaintainersNoDedup(pkgs, prjs) ==
    { [package |-> pkgs, project |-> prjs] }

PackageMaintainersDisjoint(pkgs, prjs) ==
    { [package |-> p, project |-> q] :
        p \in ListOfSet(pkgs),
        q \in ListOfSet(SelectSeq(prjs, LAMBDA x : x \notin Range(pkgs))) }

\* The values the return statement can produce.
PackageMaintainers(pkgs, prjs) ==
    { [package |-> p, project |-> q] :
        p \in ListOfSet(pkgs), q \in ListOfSet(prjs) }

SearchCall(pkg, name, roles, ignore) ==
    /\ pc = "idle"
    /\ args' = [op |-> "search_for_maintainers"]
    /\ IF ~TruthyStr(name) /\ ~TruthyObj(pkg)
       THEN \* assert pkg; without assertions, pkg.name of None
            /\ pc' = "done"
            /\ outcome' \in {"AssertionError", "AttributeError"}
            /\ UNCHANGED << requests, pkg_name, groups_to_ignore >>
       ELSE /\ pkg_name' = IF TruthyStr(name) THEN name[1] ELSE pkg[1].name
            /\ groups_to_ignore' = IF ignore = None THEN << >> ELSE ignore[1]
            /\ requests' = Append(requests,
                                  Request("/search/owner", Some("GET"),
                                          Some(SearchParams(pkg_name', roles)), None))
            /\ pc' = "owner_search"
            /\ UNCHANGED outcome
    /\ UNCHANGED << result, server, owners, i, pkg_maintainers, prj_maintainers,
                    tasks, started, completed, fetched, fetch_failures >>

\* The owner search answers: owners = OwnerCollection.from_response(...)
OwnerSearchReturns ==
    /\ pc = "owner_search"
    /\ owners' = server_owners
    /\ i' = 1
    /\ pc' = "pkg_check"
    /\ UNCHANGED << args, requests, outcome, result, server, pkg_name,
                    groups_to_ignore, pkg_maintainers, prj_maintainers, tasks,
                    started, completed, fetched, fetch_failures >>

\* The owner search fails: the error of the transport propagates.
OwnerSearchRaises ==
    /\ pc = "owner_search"
    /\ pc' = "done"
    /\ outcome' = "TransportError"
    /\ UNCHANGED << args, requests, result, server, searchLocals >>

\* if owner.project and owner.package == pkg_name: extend by owner.person,
\* then call fetch_group_members up to its await of asyncio.gather.
PkgBranch ==
    /\ pc = "pkg_check"
    /\ i <= Len(owners)
    /\ IF IsPkgScope(owners[i], pkg_name)
       THEN /\ pkg_maintainers' = pkg_maintainers \o owners[i].person
            /\ tasks' = FetchTasks(owners[i], groups_to_ignore)
            /\ started' = Scheduled(tasks', {})
            /\ completed' = {}
            /\ fetched' = fetched \cup { tasks'[k] : k \in started' }
            /\ pc' = "pkg_gather"
       ELSE /\ pc' = "prj_check"
            /\ UNCHANGED << pkg_maintainers, tasks, started, completed, fetched >>
    /\ UNCHANGED << args, requests, outcome, result, server, pkg_name,
                    groups_to_ignore, owners, i, prj_maintainers, fetch_failures >>

\* if owner.project and not owner.package: extend by owner.person, then call
\* fetch_group_members up to its await of asyncio.gather.
PrjBranch ==
    /\ pc = "prj_check"
    /\ IF IsPrjScope(owners[i])
       THEN /\ prj_maintainers' = prj_maintainers \o owners[i].person
            /\ tasks' = FetchTasks(owners[i], groups_to_ignore)
            /\ started' = Scheduled(tasks', {})
            /\ completed' = {}
            /\ fetched' = fetched \cup { tasks'[k] : k \in started' }
            /\ pc' = "prj_gather"
            /\ UNCHANGED i
       ELSE /\ pc' = "pkg_check"
            /\ i' = i + 1
            /\ UNCHANGED << prj_maintainers, tasks, started, completed, fetched >>
    /\ UNCHANGED << args, requests, outcome, result, server, pkg_name,
                    groups_to_ignore, owners, pkg_maintainers, fetch_failures >>

\* One fetch_group of the batch in flight ends: with the group, or raising.
FetchGroupEnds(k) ==
    /\ pc \in {"pkg_gather", "prj_gather"}
    /\ k \in started \ completed
    /\ LET r == server_groups[tasks[k]]
       IN  /\ fetch_failures' = IF r = None THEN fetch_failures \cup {tasks[k]}
                                ELSE fetch_failures
           /\ IF GatherRaises(r)
              THEN /\ pc' = "done"
                   /\ outcome' = "NotFound"
                   /\ UNCHANGED << completed, started, fetched >>
              ELSE /\ completed' = completed \cup {k}
                   /\ started' = Scheduled(tasks, completed')
                   /\ fetched' = fetched \cup { tasks[j] : j \in started' }
                   /\ UNCHANGED << pc, outcome >>
    /\ UNCHANGED << args, requests, result, server, pkg_name, groups_to_ignore,
                    owners, i, pkg_maintainers, prj_maintainers, tasks >>

\* asyncio.gather returns res; fetch_group_members returns the members, and
\* the caller extends its list by them.
GatherDone ==
    /\ pc \in {"pkg_gather", "prj_gather"}
    /\ GatherReturns(tasks, completed)
    /\ LET res == [k \in 1..Len(tasks) |-> server_groups[tasks[k]][1]]
       IN  IF pc = "pkg_gather"
           THEN /\ pkg_maintainers' = pkg_maintainers \o GroupMembers(res)
                /\ pc' = "prj_check"
                /\ UNCHANGED << prj_maintainers, i >>
           ELSE /\ prj_maintainers' = prj_maintainers \o GroupMembers(res)
                /\ pc' = "pkg_check"
                /\ i' = i + 1
                /\ UNCHANGED pkg_maintainers
    /\ tasks' = << >>
    /\ started' = {}
    /\ completed' = {}
    /\ UNCHANGED << args, requests, outcome, result, server, pkg_name,
                    groups_to_ignore, owners, fetched, fetch_failures >>

\* return PackageMaintainers(package=list(set(...)), project=list(set(...)))
SearchReturn ==
    /\ pc = "pkg_check"
    /\ i > Len(owners)
    /\ \E r \in PackageMaintainers(pkg_maintainers, prj_maintainers) :
          result' = Some(r)
    /\ pc' = "done"
    /\ outcome' = "ok"
    /\ UNCHANGED << args, requests, server, searchLocals >>

InitLocals ==
    /\ pc = "idle"
    /\ args = NoArgs
    /\ requests = << >>
    /\ outcome = "none"
    /\ result = None
    /\ pkg_name = ""
    /\ groups_to_ignore = << >>
    /\ owners = << >>
    /\ i = 0
    /\ pkg_maintainers = << >>
    /\ prj_maintainers = << >>
    /\ tasks = << >>
    /\ started = {}
    /\ completed = {}
    /\ fetched = {}
    /\ fetch_failures = {}

InitSearch ==
    /\ InitLocals
    /\ server_owners \in OwnerResponses
    /\ server_groups \in GroupDbs
    /\ server_dir = << >>

NextSearch ==
    \/ \E pkg \in PkgArgs, name \in PkgNameArgs, roles \in RolesArgs,
          ignore \in IgnoreArgs : SearchCall(pkg, name, roles, ignore)
    \/ OwnerSearchReturns
    \/ OwnerSearchRaises
    \/ PkgBranch
    \/ PrjBranch
    \/ \E k \in 1..Len(tasks) : FetchGroupEnds(k)
    \/ GatherDone
    \/ SearchReturn

SpecSearch == InitSearch /\ [][NextSearch]_vars

----------------------------------------------------------------------------
(* send_meta                                                               *)

Element(tag, attrib, text, children) ==
    [tag |-> tag, attrib |-> attrib, text |-> text, children |-> children]

Leaf(tag, text) == Element(tag, << >>, Some(text), << >>)

RECURSIVE Attribs(_)
Attribs(attrib) ==
    IF attrib = << >> THEN ""
    ELSE " " \o attrib[1][1] \o "=\"" \o attrib[1][2] \o "\"" \o Attribs(Tail(attrib))

RECURSIVE tostring(_)
\* ET.tostring(element): the short form for an element without text and children.
tostring(e) ==
    LET Children[k \in 0..Len(e.children)] ==
            IF k = 0 THEN "" ELSE Children[k - 1] \o tostring(e.children[k])
    IN  IF ~TruthyStr(e.text) /\ e.children = << >>
        THEN "<" \o e.tag \o Attribs(e.attrib) \o " />"
        ELSE "<" \o e.tag \o Attribs(e.attrib) \o ">"
                 \o (IF TruthyStr(e.text) THEN e.text[1] ELSE "")
                 \o Children[Len(e.children)]
                 \o "</" \o e.tag \o ">"

\* Package.meta
PackageMeta(pkg) ==
    Element("package", << <<"name", pkg.name>> >>, None,
            << Leaf("title", pkg.title), Leaf("description", pkg.description) >>
            \o (IF TruthyStr(pkg.scmsync) THEN << Leaf("scmsync", pkg.scmsync[1]) >>
                ELSE << >>))

\* Project.meta: the record's tag as root, its set fields as attributes and
\* child elements in declaration order.
ProjectMeta(prj) ==
    Element("project", << <<"name", prj.name>> >>, None,
            << Leaf("title", prj.title), Leaf("description", prj.description) >>)

RawDocs(tag, name) ==
    { Element(tag, << <<"name", name>> >>, None, << >>),
      Element(tag, << <<"name", name>> >>, None, << Leaf("title", "t") >>) }

SendMetaArgs ==
    [ op : {"send_meta"},
      prj : {None, Some(Project("home:x"))},
      prj_name : {None, Some(""), Some("home:x")},
      prj_meta : {None} \cup { Some(d) : d \in RawDocs("project", "home:x") },
      pkg : {None, Some(Package("pkgA"))},
      pkg_name : {None, Some(""), Some("pkgA")},
      pkg_meta : {None} \cup { Some(d) : d \in RawDocs("package", "pkgA") } ]

\* The if/elif chain of send_meta: the route and the document of the branch
\* taken, None when the else branch is.
SendMetaTarget(a) ==
    IF TruthyObj(a.prj) /\ TruthyObj(a.pkg)
    THEN Some([route |-> "/source/" \o a.prj[1].name \o "/" \o a.pkg[1].name,
               meta |-> PackageMeta(a.pkg[1])])
    ELSE IF TruthyObj(a.prj) /\ ~TruthyObj(a.pkg)
    THEN Some([route |-> "/source/" \o a.prj[1].name,
               meta |-> ProjectMeta(a.prj[1])])
    ELSE IF TruthyStr(a.prj_name) /\ TruthyStr(a.pkg_name) /\ TruthyElement(a.pkg_meta)
    THEN Some([route |-> "/source/" \o a.prj_name[1] \o "/" \o a.pkg_name[1],
               meta |-> a.pkg_meta[1]])
    ELSE IF TruthyStr(a.prj_name) /\ TruthyElement(a.prj_meta)
    THEN Some([route |-> "/source/" \o a.prj_name[1],
               meta |-> a.prj_meta[1]])
    ELSE None

SendMetaCall(a) ==
    /\ pc = "idle"
    /\ args' = a
    /\ LET target == SendMetaTarget(a)
       IN  IF target = None
           THEN \* assert False; without assertions, meta is unbound at ET.tostring
                /\ pc' = "done"
                /\ outcome' \in {"AssertionError", "UnboundLocalError"}
                /\ UNCHANGED requests
           ELSE /\ requests' = Append(requests,
                                      Request(target[1].route \o "/_meta", Some("PUT"),
                                              None, Some(tostring(target[1].meta))))
                /\ pc' = "await_reply"
                /\ UNCHANGED outcome
    /\ UNCHANGED << result, server, searchLocals >>

\* The awaited api_request of send_meta or delete returns: the call returns None.
ReplyReturns ==
    /\ pc = "await_reply"
    /\ pc' = "done"
    /\ outcome' = "ok"
    /\ UNCHANGED << args, requests, result, server, searchLocals >>

\* The awaited api_request of send_meta or delete raises.
ReplyRaises ==
    /\ pc = "await_reply"
    /\ pc' = "done"
    /\ outcome' = "TransportError"
    /\ UNCHANGED << args, requests, result, server, searchLocals >>

InitIdle ==
    /\ InitLocals
    /\ server_owners = << >>
    /\ server_groups = [g \in Groups |-> None]
    /\ server_dir = << >>

NextSendMeta ==
    \/ \E a \in SendMetaArgs : SendMetaCall(a)
    \/ ReplyReturns
    \/ ReplyRaises

SpecSendMeta == InitIdle /\ [][NextSendMeta]_vars

----------------------------------------------------------------------------
(* delete                                                                  *)

DeleteArgs ==
    [ op : {"delete"},
      prj : {Str("home:x"), Project("home:x"), Str("home:y"), Project("home:y")},
      pkg : {None, Some(Str("")), Some(Str("pkgA")), Some(Package("pkgA")),
             Some(Str("pkgB")), Some(Package(""))},
      force : BOOLEAN ]

\* x.name if isinstance(x, Project or Package) else x
NameOf(x) == IF x.cls = "str" THEN x.value ELSE x.name

\* bool(pkg) of a Package | str | None
TruthyPkg(x) == x # None /\ (x[1].cls = "str" => x[1].value # "")

DeleteRouteNoPackage(prj, pkg) == "/source/" \o NameOf(prj) \o "/"

\* route of delete
DeleteRoute(prj, pkg) ==
    "/source/" \o NameOf(prj) \o "/"
        \o (IF TruthyPkg(pkg) THEN NameOf(pkg[1]) ELSE "")

\* params={"force": "1"} if force else None
DeleteParams(force) == IF force THEN Some({<<"force", "1">>}) ELSE None

DeleteCall(a) ==
    /\ pc = "idle"
    /\ args' = a
    /\ requests' = Append(requests,
                          Request(DeleteRoute(a.prj, a.pkg), Some("DELETE"),
                                  DeleteParams(a.force), None))
    /\ pc' = "await_reply"
    /\ UNCHANGED << outcome, result, server, searchLocals >>

NextDelete ==
    \/ \E a \in DeleteArgs : DeleteCall(a)
    \/ ReplyReturns
    \/ ReplyRaises

SpecDelete == InitIdle /\ [][NextDelete]_vars

----------------------------------------------------------------------------
(* fetch_file_list                                                         *)

Entry(name, md5, size, mtime) ==
    [name |-> name, md5 |-> md5, size |-> size, mtime |-> mtime]

File(name, md5_sum, size, mtime) ==
    [name |-> name, md5_sum |-> md5_sum, size |-> size, mtime |-> mtime]

Entries ==
    { Entry(name, md5, size, mtime) :
        name \in {None, Some("a.txt"), Some("b.txt")},
        md5 \in {None, Some("abc123")},
        size \in {None, Some(0), Some(10)},
        mtime \in {None, Some(100)} }

Directories == SeqUpTo(Entries, MaxEntries)

FileListArgs ==
    [ op : {"fetch_file_list"},
      prj : {Str("home:x"), Project("home:x")},
      pkg : {Str("pkgA"), Package("pkgA")} ]

\* _prj_and_pkg_name
PrjAndPkgName(prj, pkg) == << NameOf(prj), NameOf(pkg) >>

\* if entry.name and entry.md5 and entry.size and entry.mtime
KeepsEntry(entry) ==
    /\ TruthyStr(entry.name)
    /\ TruthyStr(entry.md5)
    /\ TruthyInt(entry.size)
    /\ TruthyInt(entry.mtime)

\* The list comprehension of fetch_file_list.
FileList(entries) ==
    LET kept == SelectSeq(entries, KeepsEntry)
    IN  [k \in 1..Len(kept) |->
            File(kept[k].name[1], kept[k].md5[1], kept[k].size[1], kept[k].mtime[1])]

FetchFileListCall(a) ==
    /\ pc = "idle"
    /\ args' = a
    /\ LET names == PrjAndPkgName(a.prj, a.pkg)
       IN  requests' = Append(requests,
                              Request("/source/" \o names[1] \o "/" \o names[2],
                                      None, None, None))
    /\ pc' = "await_directory"
    /\ UNCHANGED << outcome, result, server, searchLocals >>

\* The directory listing arrives and is projected to the list of File.
DirectoryReturns ==
    /\ pc = "await_directory"
    /\ result' = Some(FileList(server_dir))
    /\ pc' = "done"
    /\ outcome' = "ok"
    /\ UNCHANGED << args, requests, server, searchLocals >>

DirectoryRaises ==
    /\ pc = "await_directory"
    /\ pc' = "done"
    /\ outcome' = "TransportError"
    /\ UNCHANGED << args, requests, result, server, searchLocals >>

InitFileList ==
    /\ InitLocals
    /\ server_owners = << >>
    /\ server_groups = [g \in Groups |-> None]
    /\ server_dir \in Directories

NextFileList ==
    \/ \E a \in FileListArgs : FetchFileListCall(a)
    \/ DirectoryReturns
    \/ DirectoryRaises

SpecFileList == InitFileList /\ [][NextFileList]_vars

----------------------------------------------------------------------------
(* Properties of search_for_maintainers.                                   *)

SearchDoneOk ==
    pc = "done" /\ args.op = "search_for_maintainers" /\ outcome = "ok"

Processing ==
    /\ args.op = "search_for_maintainers"
    /\ pc \in {"pkg_check", "pkg_gather", "prj_check", "prj_gather"}
    /\ i \in 1..Len(owners)

NoDuplicateUserIds(list) ==
    \A a, b \in 1..Len(list) : a # b => list[a].userid # list[b].userid

HasDuplicates(list) ==
    \E a, b \in 1..Len(list) : a # b /\ list[a] = list[b]

EmptyPackage(owner) == owner.package = None \/ owner.package = Some("")

\* The persons of a found group of the service db: its maintainers and its
\* plain members.
PersonsOfGroupIn(db, g) ==
    { Person2(u) : u \in Range(db[g][1].maintainer) \cup Range(db[g][1].person) }

PersonsOfGroup(g) == PersonsOfGroupIn(server_groups, g)

\* The persons of the groups of an owner record that are not ignored and exist.
PersonsOfGroupsIn(db, ignore, owner) ==
    UNION { PersonsOfGroupIn(db, g) :
              g \in { h \in Range(owner.group) :
                        h \notin Range(ignore) /\ db[h] # None } }

PersonsOfGroups(owner) ==
    PersonsOfGroupsIn(server_groups, groups_to_ignore, owner)

\* Every person the response names for the package scope, directly or by a
\* group that is not ignored.
NamedForPackage ==
    UNION { Range(owners[k].person) \cup PersonsOfGroups(owners[k]) :
              k \in { j \in 1..Len(owners) :
                        owners[j].project \notin {None, Some("")}
                        /\ owners[j].package = Some(pkg_name) } }

\* Every person the response names for the project scope.
NamedForProject ==
    UNION { Range(owners[k].person) \cup PersonsOfGroups(owners[k]) :
              k \in { j \in 1..Len(owners) :
                        owners[j].project \notin {None, Some("")}
                        /\ EmptyPackage(owners[j]) } }

\* C1: when search_for_maintainers returns, no user id occurs more than once
\* in PackageMaintainers.package and none more than once in .project.
C1_NoDuplicateUserIds ==
    SearchDoneOk =>
        /\ NoDuplicateUserIds(result[1].package)
        /\ NoDuplicateUserIds(result[1].project)

C1_Witness ==
    /\ SearchDoneOk
    /\ HasDuplicates(pkg_maintainers)
    /\ HasDuplicates(prj_maintainers)

Scenario ==
    /\ owners = << Owner(Some("home:x"), Some("pkgA"), <<Person2("alice")>>, <<"grp1">>) >>
    /\ server_groups["grp1"] = Some(UserGroup(<<"bob">>, << >>))
    /\ pkg_name = "pkgA"
    /\ groups_to_ignore = << >>

\* C3: every group fetched for an owner record contributes its maintainers
\* and its plain members to the scope of the record's direct persons; the
\* scenario of one owner (home:x, pkgA, [alice], [grp1]) with grp1 =
\* (maintainer [bob], no members) gives package = {alice, bob}, project = {}.
C3_GroupMembersJoinScope ==
    SearchDoneOk =>
        /\ \A k \in 1..Len(owners) :
              /\ IsPkgScope(owners[k], pkg_name)
                   => PersonsOfGroups(owners[k]) \subseteq Range(result[1].package)
              /\ IsPrjScope(owners[k])
                   => PersonsOfGroups(owners[k]) \subseteq Range(result[1].project)
        /\ Scenario =>
              /\ Range(result[1].package) = {Person2("alice"), Person2("bob")}
              /\ result[1].project = << >>

C3_Witness ==
    /\ SearchDoneOk
    /\ \E k \in 1..Len(owners) :
          /\ IsPrjScope(owners[k])
          /\ \E g \in Range(owners[k].group) \ Range(groups_to_ignore) :
                /\ server_groups[g][1].maintainer # << >>
                /\ server_groups[g][1].person # << >>
                /\ Person2(server_groups[g][1].person[1]) \notin Range(owners[k].person)

\* C4: a group named in groups_to_ignore is never fetched, and contributes
\* no member to the package-scope or project-scope result: each result holds
\* only persons named directly or by a group that is not ignored.
C4_IgnoredGroupContributesNothing ==
    /\ fetched \cap Range(groups_to_ignore) = {}
    /\ SearchDoneOk =>
          /\ Range(result[1].package) \subseteq NamedForPackage
          /\ Range(result[1].project) \subseteq NamedForProject

C4_Witness ==
    /\ SearchDoneOk
    /\ \E k \in 1..Len(owners), g \in Range(groups_to_ignore) :
          /\ IsPkgScope(owners[k], pkg_name)
          /\ g \in Range(owners[k].group)
          /\ server_groups[g] # None
          /\ PersonsOfGroup(g) \ Range(result[1].package) # {}
    /\ \E k \in 1..Len(owners), g \in Range(groups_to_ignore) :
          /\ IsPrjScope(owners[k])
          /\ g \in Range(owners[k].group)
          /\ server_groups[g] # None
          /\ PersonsOfGroup(g) \ Range(result[1].project) # {}

\* C5: when the fetch of any group fails, the whole call ends in an error
\* and returns no PackageMaintainers.
C5_FetchFailureFailsCall ==
    fetch_failures # {} =>
        /\ pc = "done"
        /\ outcome \notin {"ok", "none"}
        /\ result = None

C5_Witness ==
    /\ fetch_failures # {}
    /\ pc = "done"
    /\ i = 2
    /\ pkg_maintainers # << >>

\* C6 as stated: no user id is in both the package list and the project list.
C6_AsStated ==
    SearchDoneOk => Range(result[1].package) \cap Range(result[1].project) = {}

\* C6 amended: the two lists are built independently; the user ids in both
\* are exactly those the response names for both scopes.
C6_ListsShareWhatBothScopesName ==
    SearchDoneOk =>
        Range(result[1].package) \cap Range(result[1].project)
            = NamedForPackage \cap NamedForProject

C6_Witness ==
    /\ SearchDoneOk
    /\ Range(result[1].package) \cap Range(result[1].project) # {}

\* C10: when an owner record is expanded, the fetches of all its groups that
\* are not ignored are in flight together, and the record's group members are
\* merged only after every fetch of the batch has completed.
C10_BatchInFlightThenMerged ==
    [][ /\ (pc' \in {"pkg_gather", "prj_gather"})
             => /\ { tasks'[k] : k \in started' }
                      = Range(owners'[i'].group) \ Range(groups_to_ignore')
                /\ started' = 1..Len(tasks')
        /\ (/\ pc \in {"pkg_gather", "prj_gather"}
            /\ << pkg_maintainers', prj_maintainers' >>
                  # << pkg_maintainers, prj_maintainers >>)
             => completed = 1..Len(tasks) ]_vars

C10_Witness ==
    /\ pc \in {"pkg_gather", "prj_gather"}
    /\ Cardinality(started) = 2
    /\ completed = {}
    /\ server_groups[tasks[1]] # None
    /\ server_groups[tasks[2]] # None

----------------------------------------------------------------------------
(* Properties of fetch_file_list, send_meta and delete.                    *)

Present(entry) ==
    entry.name # None /\ entry.md5 # None /\ entry.size # None /\ entry.mtime # None

\* C7: fetch_file_list returns, in the order of the listing, exactly one File
\* for each entry whose name, md5, size and mtime are all present, with the
\* four values copied, and none for an entry that misses any of them.
C7_AsStated ==
    (pc = "done" /\ args.op = "fetch_file_list" /\ outcome = "ok") =>
        LET present == SelectSeq(server_dir, Present)
        IN  result[1] = [k \in 1..Len(present) |->
                            File(present[k].name[1], present[k].md5[1],
                                 present[k].size[1], present[k].mtime[1])]

GivenParams(a) ==
    { f \in {"prj", "prj_name", "prj_meta", "pkg", "pkg_name", "pkg_meta"} :
        a[f] # None }

TargetShapes ==
    { {"prj"}, {"prj", "pkg"}, {"prj_name", "prj_meta"},
      {"prj_name", "pkg_name", "pkg_meta"} }

\* C8: send_meta accepts exactly the four target shapes: for every other
\* combination of its six parameters the call fails at once and no request
\* is issued.
C8_AsStated ==
    (args.op = "send_meta" /\ GivenParams(args) \notin TargetShapes) =>
        /\ pc = "done"
        /\ outcome \notin {"ok", "none"}
        /\ requests = << >>

DeleteScenario ==
    /\ args.op = "delete"
    /\ args.prj = Str("home:x")
    /\ args.pkg = Some(Str("pkgA"))
    /\ args.force

GivenName(x) == IF x[1].cls = "str" THEN x[1].value ELSE x[1].name

\* C9 as stated: delete issues exactly one DELETE request, to /source/{project}
\* when no package is given and to /source/{project}/{package} when one is,
\* with the parameter force=1 if and only if force is true.
C9_AsStated ==
    args.op = "delete" =>
        /\ Len(requests) = 1
        /\ requests[1].method = Some("DELETE")
        /\ requests[1].route =
              IF args.pkg = None
              THEN "/source/" \o GivenName(<<args.prj>>)
              ELSE "/source/" \o GivenName(<<args.prj>>) \o "/" \o GivenName(args.pkg)
        /\ requests[1].params = (IF args.force THEN Some({<<"force", "1">>}) ELSE None)

\* C9 amended: the same, but the route without a package is
\* /source/{project}/, with the slash at its end.
C9_DeleteRequest ==
    args.op = "delete" =>
        /\ Len(requests) = 1
        /\ requests[1].method = Some("DELETE")
        /\ requests[1].route =
              IF args.pkg = None
              THEN "/source/" \o GivenName(<<args.prj>>) \o "/"
              ELSE "/source/" \o GivenName(<<args.prj>>) \o "/" \o GivenName(args.pkg)
        /\ requests[1].params = (IF args.force THEN Some({<<"force", "1">>}) ELSE None)
        /\ DeleteScenario =>
              /\ requests[1].route = "/source/home:x/pkgA"
              /\ requests[1].params = Some({<<"force", "1">>})

C9_Witness == DeleteScenario /\ pc = "done" /\ outcome = "ok"

====
